---------------------------- MODULE Spec2Model ----------------------------
(***************************************************************************)
(* Model of libs/jpegrecoverymap/recoverymapmath.cpp: the recovery-map     *)
(* (gain-map) math kernel.  Every function of the file is pure, so the     *)
(* state machine is a call record: Init draws a function and its           *)
(* arguments, and one action per function applies it and stores what it    *)
(* returned (together with the intermediate values the properties read).   *)
(*                                                                         *)
(* Numbers.  C++ floats are modelled by exact arithmetic: rationals        *)
(* [num, den] in lowest terms, and for the gamut matrices fixed-point      *)
(* numbers wide enough for two chained 5-decimal matrix products.  Float   *)
(* rounding (relative error about 6e-8) is not modelled.  Conversions      *)
(* float -> integer truncate toward zero, as static_cast does, and are     *)
(* undefined outside the target type's range.                              *)
(***************************************************************************)
EXTENDS Integers, Sequences, FiniteSets

VARIABLES fn, pc, args, ret

vars == <<fn, pc, args, ret>>

(***************************************************************************)
(* Bounds of the explored inputs.                                          *)
(***************************************************************************)
\* gain maps of 1..MaxMapDim columns and rows
MaxMapDim == 2
\* map scale factors 1..MaxScale
MaxScale == 2
\* target pixel coordinates 0..MaxCoord (beyond the last map cell as well)
MaxCoord == 4

\* the byte values a gain-map cell is drawn from
MapBytes == {0, 255}

(***************************************************************************)
(* Exact rationals, kept in lowest terms with a positive denominator.      *)
(***************************************************************************)
Abs(i) == IF i < 0 THEN -i ELSE i

RECURSIVE GCD(_, _)
GCD(a, b) == IF b = 0 THEN a ELSE GCD(b, a % b)

Rat(n, d) ==
  LET s == IF d < 0 THEN -1 ELSE 1
      g == GCD(Abs(n), Abs(d))
  IN  [num |-> (s * n) \div g, den |-> (s * d) \div g]

RInt(i) == [num |-> i, den |-> 1]
RAdd(a, b) == Rat(a.num * b.den + b.num * a.den, a.den * b.den)
RSub(a, b) == Rat(a.num * b.den - b.num * a.den, a.den * b.den)
RMul(a, b) == Rat(a.num * b.num, a.den * b.den)
RDiv(a, b) == Rat(a.num * b.den, a.den * b.num)
RLess(a, b) == a.num * b.den < b.num * a.den
RLeq(a, b) == a.num * b.den <= b.num * a.den
\* floor() of a rational
RFloor(a) == a.num \div a.den
\* truncation toward zero: what static_cast<integer>(float) keeps
RTrunc(a) == IF a.num >= 0 THEN a.num \div a.den ELSE -((-a.num) \div a.den)

(***************************************************************************)
(* Recovery map calculations: sampleMap                                    *)
(***************************************************************************)
\* a variant of clamp that forgets the upper limit
clampNoUpper(val, low, high) == IF val < low THEN low ELSE val

\* static size_t clamp(val, low, high)
clamp(val, low, high) ==
  IF val < low THEN low ELSE (IF high < val THEN high ELSE val)

\* static float mapUintToFloat(uint8_t map_uint)
mapUintToFloat(map_uint) ==
  RDiv(RSub(RInt(map_uint), Rat(255, 2)), Rat(255, 2))

\* The locals of sampleMap up to the four reads: the map coordinates, the
\* clamped neighbours and the influences.
sampleMapLocals(map, map_scale_factor, x, y) ==
  LET x_map == Rat(x, map_scale_factor)
      y_map == Rat(y, map_scale_factor)
      x_lower0 == RFloor(x_map)
      x_upper0 == x_lower0 + 1
      y_lower0 == RFloor(y_map)
      y_upper0 == y_lower0 + 1
      x_lower == clamp(x_lower0, 0, map.width - 1)
      x_upper == clamp(x_upper0, 0, map.width - 1)
      y_lower == clamp(y_lower0, 0, map.height - 1)
      y_upper == clamp(y_upper0, 0, map.height - 1)
  IN  [x_lower |-> x_lower, x_upper |-> x_upper,
       y_lower |-> y_lower, y_upper |-> y_upper,
       x_influence |-> RSub(x_map, RInt(x_lower)),
       y_influence |-> RSub(y_map, RInt(y_lower))]

\* The byte indices of the four reads e1..e4, in the order of the code.
sampleMapReads(map, map_scale_factor, x, y) ==
  LET l == sampleMapLocals(map, map_scale_factor, x, y)
  IN  << l.x_lower + l.y_lower * map.width,
         l.x_lower + l.y_upper * map.width,
         l.x_upper + l.y_lower * map.width,
         l.x_upper + l.y_upper * map.width >>

\* A read of map->data: the stored byte inside the buffer; any byte when the
\* index lies outside it (an out-of-bounds read is undefined behaviour).
MapReadOutcomes(map, idx) ==
  IF idx \in DOMAIN map.data THEN {map.data[idx]} ELSE MapBytes

\* The weighted sum sampleMap returns, from the four bytes read.
sampleMapBlend(l, b1, b2, b3, b4) ==
  LET one == RInt(1)
      two == RInt(2)
      xi == l.x_influence
      yi == l.y_influence
      e1 == mapUintToFloat(b1)
      e2 == mapUintToFloat(b2)
      e3 == mapUintToFloat(b3)
      e4 == mapUintToFloat(b4)
  IN  RAdd(RAdd(RAdd(
        RDiv(RMul(e1, RAdd(xi, yi)), two),
        RDiv(RMul(e2, RSub(RAdd(xi, one), yi)), two)),
        RDiv(RMul(e3, RAdd(RSub(one, xi), yi)), two)),
        RDiv(RMul(e4, RSub(RAdd(RSub(one, xi), one), yi)), two))

\* float sampleMap(map, map_scale_factor, x, y): the possible results, each
\* with the indices read.
sampleMap(map, map_scale_factor, x, y) ==
  LET l == sampleMapLocals(map, map_scale_factor, x, y)
      reads == sampleMapReads(map, map_scale_factor, x, y)
  IN  { [reads |-> reads, value |-> sampleMapBlend(l, b1, b2, b3, b4)] :
          b1 \in MapReadOutcomes(map, reads[1]),
          b2 \in MapReadOutcomes(map, reads[2]),
          b3 \in MapReadOutcomes(map, reads[3]),
          b4 \in MapReadOutcomes(map, reads[4]) }

\* The gain maps drawn: width x height row-major bytes.
GainMaps ==
  UNION { { [width |-> w, height |-> h, data |-> d] :
              d \in [0 .. (w * h - 1) -> MapBytes] } :
          w \in 1 .. MaxMapDim, h \in 1 .. MaxMapDim }

InitSampleMap ==
  /\ fn = "sampleMap"
  /\ args \in { [map |-> m, map_scale_factor |-> s, x |-> x, y |-> y] :
                  m \in GainMaps, s \in 1 .. MaxScale,
                  x \in 0 .. MaxCoord, y \in 0 .. MaxCoord }

CallSampleMap ==
  /\ fn = "sampleMap"
  /\ pc = "call"
  /\ ret' \in sampleMap(args.map, args.map_scale_factor, args.x, args.y)
  /\ pc' = "done"
  /\ UNCHANGED <<fn, args>>

\* C1: at grid-aligned coordinates (map_scale_factor divides x and y, and
\* the cell (x/s, y/s) lies inside the map) sampleMap returns exactly the
\* decoded gain of the byte stored at that cell.
C1_AlignedSampleIsStoredGain ==
  (fn = "sampleMap" /\ pc = "done"
     /\ args.x % args.map_scale_factor = 0
     /\ args.y % args.map_scale_factor = 0
     /\ args.x \div args.map_scale_factor < args.map.width
     /\ args.y \div args.map_scale_factor < args.map.height)
  => ret.value =
       mapUintToFloat(args.map.data[(args.x \div args.map_scale_factor)
         + (args.y \div args.map_scale_factor) * args.map.width])

\* C9: each of the four byte indices sampleMap reads lies in
\* [0, width * height), also for pixels at or beyond the last column or row.
C9_MapReadsInBounds ==
  (fn = "sampleMap" /\ pc = "done")
  => \A i \in 1 .. 4 :
       /\ 0 <= ret.reads[i]
       /\ ret.reads[i] < args.map.width * args.map.height

\* C9's case: a pixel whose map coordinates lie beyond the last column and
\* the last row has been sampled.
C9_Witness ==
  /\ fn = "sampleMap" /\ pc = "done"
  /\ args.x \div args.map_scale_factor >= args.map.width
  /\ args.y \div args.map_scale_factor >= args.map.height
  /\ args.map.width > 1 /\ args.map.height > 1
  /\ ret.reads[4] = args.map.width * args.map.height - 1

(***************************************************************************)
(* Recovery map calculations: encodeRecovery                               *)
(*                                                                         *)
(* A float operand is sgn * 2^lg: [sgn |-> -1, 0 or 1, lg |-> integer]     *)
(* (lg = 0 when sgn = 0), so that log2 is exact.  The quantity that is     *)
(* narrowed is "finite" (a rational), "ninf" (-infinity, from log2(0)) or  *)
(* "nan" (from log2 of a negative gain); hdr_ratio being finite, the clamp *)
(* excludes +infinity.                                                     *)
(***************************************************************************)
\* luminances 2^lg with lg in -MaxLg .. MaxLg, and 0
MaxLg == 3
\* hdr_ratio = 2^k with k in 1 .. MaxRatioLg
MaxRatioLg == 4

Pow2(lg) == [sgn |-> 1, lg |-> lg]
Zero == [sgn |-> 0, lg |-> 0]
FNeg(a) == [sgn |-> -a.sgn, lg |-> a.lg]
\* a < b on sgn * 2^lg operands
FLess(a, b) ==
  CASE a.sgn < b.sgn -> TRUE
    [] a.sgn > b.sgn -> FALSE
    [] a.sgn = 0 -> FALSE
    [] a.sgn = 1 -> a.lg < b.lg
    [] OTHER -> a.lg > b.lg
\* a / b for b # 0
FDiv(a, b) ==
  IF a.sgn = 0 THEN Zero ELSE [sgn |-> a.sgn * b.sgn, lg |-> a.lg - b.lg]

\* a variant of the gain that starts from 0.0f instead of 1.0f
encodeGainFromZero(y_sdr, y_hdr) ==
  IF FLess(Zero, y_sdr) THEN FDiv(y_hdr, y_sdr) ELSE Zero

\* float gain = 1.0f; if (y_sdr > 0.0f) gain = y_hdr / y_sdr;
encodeGain(y_sdr, y_hdr) ==
  IF FLess(Zero, y_sdr) THEN FDiv(y_hdr, y_sdr) ELSE Pow2(0)

\* if (gain < -hdr_ratio) gain = -hdr_ratio; if (gain > hdr_ratio) gain = hdr_ratio;
encodeClamp(gain, hdr_ratio) ==
  LET g1 == IF FLess(gain, FNeg(hdr_ratio)) THEN FNeg(hdr_ratio) ELSE gain
  IN  IF FLess(hdr_ratio, g1) THEN hdr_ratio ELSE g1

\* log2(gain) / log2(hdr_ratio) * 127.5f + 127.5f, for hdr_ratio > 1
encodeQuantity(gain, hdr_ratio) ==
  CASE gain.sgn = 0 -> [kind |-> "ninf"]
    [] gain.sgn < 0 -> [kind |-> "nan"]
    [] OTHER ->
         [kind |-> "finite",
          val |-> RAdd(RMul(RDiv(RInt(gain.lg), RInt(hdr_ratio.lg)),
                            Rat(255, 2)),
                       Rat(255, 2))]

Uint8 == 0 .. 255

\* a variant of the narrowing that rounds to the nearest integer
narrowRounding(q) ==
  IF q.kind = "finite" /\ RLess(RInt(-1), RAdd(q.val, Rat(1, 2)))
       /\ RLess(RAdd(q.val, Rat(1, 2)), RInt(256))
  THEN {RFloor(RAdd(q.val, Rat(1, 2)))}
  ELSE Uint8

\* static_cast<uint8_t>(q): the value truncated toward zero when that fits
\* uint8_t; otherwise (too large, negative, infinite, NaN) the conversion is
\* undefined and any byte may come out.
narrowToUint8(q) ==
  IF q.kind = "finite" /\ RLess(RInt(-1), q.val) /\ RLess(q.val, RInt(256))
  THEN {RTrunc(q.val)}
  ELSE Uint8

\* uint8_t encodeRecovery(y_sdr, y_hdr, hdr_ratio): the possible results,
\* each with the gain after clamping and the quantity that is narrowed.
encodeRecovery(y_sdr, y_hdr, hdr_ratio) ==
  LET gain == encodeClamp(encodeGain(y_sdr, y_hdr), hdr_ratio)
      q == encodeQuantity(gain, hdr_ratio)
  IN  { [gain |-> gain, quantity |-> q, byte |-> b] : b \in narrowToUint8(q) }

Luminances == {Zero} \cup { Pow2(lg) : lg \in -MaxLg .. MaxLg }

InitEncodeRecovery ==
  /\ fn = "encodeRecovery"
  /\ args \in { [y_sdr |-> s, y_hdr |-> h, hdr_ratio |-> Pow2(k)] :
                  s \in Luminances, h \in Luminances, k \in 1 .. MaxRatioLg }

CallEncodeRecovery ==
  /\ fn = "encodeRecovery"
  /\ pc = "call"
  /\ ret' \in encodeRecovery(args.y_sdr, args.y_hdr, args.hdr_ratio)
  /\ pc' = "done"
  /\ UNCHANGED <<fn, args>>

\* C2: for y_sdr >= 0 and y_hdr > 0 the quantity encodeRecovery narrows to
\* uint8_t lies in [0, 255] after the clamp.
C2_QuantityInByteRange ==
  (fn = "encodeRecovery" /\ pc = "done"
     /\ ~FLess(args.y_sdr, Zero) /\ FLess(Zero, args.y_hdr))
  => /\ ret.quantity.kind = "finite"
     /\ RLeq(RInt(0), ret.quantity.val)
     /\ RLeq(ret.quantity.val, RInt(255))

\* the precondition of C3: y_sdr > 0, y_hdr > 0 and
\* 1/hdr_ratio <= y_hdr/y_sdr <= hdr_ratio
RatioInRange ==
  /\ FLess(Zero, args.y_sdr) /\ FLess(Zero, args.y_hdr)
  /\ args.y_hdr.lg - args.y_sdr.lg <= args.hdr_ratio.lg
  /\ args.y_hdr.lg - args.y_sdr.lg >= -args.hdr_ratio.lg

\* n * 127.5 + 127.5 with n = log2(y_hdr / y_sdr) / log2(hdr_ratio)
ScaledLogRatio ==
  RAdd(RMul(Rat(args.y_hdr.lg - args.y_sdr.lg, args.hdr_ratio.lg),
            Rat(255, 2)),
       Rat(255, 2))

\* encodeRecovery(0.5, 1.0, 4.0)
IsEncodeExample ==
  /\ args.y_sdr = Pow2(-1) /\ args.y_hdr = Pow2(0) /\ args.hdr_ratio = Pow2(2)

\* C3 as stated: with the ratio in [1/hdr_ratio, hdr_ratio] encodeRecovery
\* returns the integer nearest to n * 127.5 + 127.5, and
\* encodeRecovery(0.5, 1.0, 4.0) = 191.
C3_RoundsToNearest ==
  (fn = "encodeRecovery" /\ pc = "done" /\ RatioInRange)
  => /\ ret.byte = RFloor(RAdd(ScaledLogRatio, Rat(1, 2)))
     /\ IsEncodeExample => ret.byte = 191

\* C3 as amended: with the ratio in [1/hdr_ratio, hdr_ratio] encodeRecovery
\* returns n * 127.5 + 127.5 with its fraction dropped (the floor, not the
\* nearest integer), and encodeRecovery(0.5, 1.0, 4.0) = 191.
C3_TruncatesFraction ==
  (fn = "encodeRecovery" /\ pc = "done" /\ RatioInRange)
  => /\ ret.byte = RFloor(ScaledLogRatio)
     /\ IsEncodeExample => ret.byte = 191

\* C3's case: a ratio in range whose quantity has a fraction of at least one
\* half has been encoded: the byte returned is one below the nearest integer.
C3_Witness ==
  /\ fn = "encodeRecovery" /\ pc = "done" /\ RatioInRange
  /\ args.y_hdr # args.y_sdr
  /\ ret.byte = RFloor(ScaledLogRatio)
  /\ ret.byte + 1 = RFloor(RAdd(ScaledLogRatio, Rat(1, 2)))

\* C4: for y_sdr = 0 (any y_hdr; the gain is taken as 1.0) and for
\* y_hdr = y_sdr > 0 encodeRecovery returns 127 or 128.
C4_UnitRatioIsMidpoint ==
  (fn = "encodeRecovery" /\ pc = "done")
  => /\ (args.y_sdr = Zero) => (ret.gain = Pow2(0) /\ ret.byte \in {127, 128})
     /\ (FLess(Zero, args.y_sdr) /\ args.y_hdr = args.y_sdr)
          => ret.byte \in {127, 128}

\* C4's case: a zero y_sdr with a y_hdr above hdr_ratio has been encoded.
C4_Witness ==
  /\ fn = "encodeRecovery" /\ pc = "done"
  /\ args.y_sdr = Zero
  /\ FLess(args.hdr_ratio, args.y_hdr)
  /\ ret.byte = 127

(***************************************************************************)
(* Colors of the gamut conversions and of the packing.                     *)
(*                                                                         *)
(* A channel is a fixed-point number: the wide integer w = hi * 1000 + lo  *)
(* (0 <= lo < 1000) of a Color with `level` n stands for                   *)
(* w / (ColorDen * 100000^n).  An input Color has level 0 and channels     *)
(* 0/ColorDen .. ColorDen/ColorDen; each 5-decimal matrix product is exact *)
(* one level up.  The split into hi and lo keeps every intermediate        *)
(* product inside 32 bits.                                                 *)
(***************************************************************************)
\* input channels are 0/ColorDen, 1/ColorDen, .., ColorDen/ColorDen
ColorDen == 2

WNorm(hi, lo) == [hi |-> hi + (lo \div 1000), lo |-> lo % 1000]
WInt(i) == WNorm(0, i)
WVal(w) == w.hi * 1000 + w.lo
WAdd(a, b) == WNorm(a.hi + b.hi, a.lo + b.lo)
WSub(a, b) == WNorm(a.hi - b.hi, a.lo - b.lo)
WScale(c, a) == WNorm(c * a.hi, c * a.lo)
WLeq(a, b) == a.hi < b.hi \/ (a.hi = b.hi /\ a.lo <= b.lo)

Colors ==
  { [r |-> WInt(r), g |-> WInt(g), b |-> WInt(b), level |-> 0] :
      r \in 0 .. ColorDen, g \in 0 .. ColorDen, b \in 0 .. ColorDen }

\* one output channel c[1] * e.r + c[2] * e.g + c[3] * e.b, the
\* coefficients in units of 0.00001
MatRow(c, e) ==
  WAdd(WAdd(WScale(c[1], e.r), WScale(c[2], e.g)), WScale(c[3], e.b))

MatMul(m, e) ==
  [r |-> MatRow(m[1], e), g |-> MatRow(m[2], e), b |-> MatRow(m[3], e),
   level |-> e.level + 1]

(***************************************************************************)
(* Color conversions                                                       *)
(***************************************************************************)
bt709ToP3(e) ==
  MatMul(<< <<82254, 17755, 6>>,
            <<3312, 96684, -1>>,
            <<1706, 7240, 91049>> >>, e)

bt709ToBt2100(e) ==
  MatMul(<< <<62740, 32930, 4332>>,
            <<6904, 91958, 1138>>,
            <<1636, 8799, 89555>> >>, e)

p3ToBt709(e) ==
  MatMul(<< <<122482, -22490, -7>>,
            <<-4196, 104199, 1>>,
            <<-1961, -7865, 109831>> >>, e)

\* a variant of p3ToBt2100 with two coefficients of the first row exchanged
p3ToBt2100Swapped(e) ==
  MatMul(<< <<75378, 4754, 19862>>,
            <<4576, 94177, 1250>>,
            <<-121, 1757, 98359>> >>, e)

p3ToBt2100(e) ==
  MatMul(<< <<75378, 19862, 4754>>,
            <<4576, 94177, 1250>>,
            <<-121, 1757, 98359>> >>, e)

bt2100ToBt709(e) ==
  MatMul(<< <<166045, -58764, -7286>>,
            <<-12445, 113282, -837>>,
            <<-1811, -10057, 111878>> >>, e)

bt2100ToP3(e) ==
  MatMul(<< <<134369, -28223, -6135>>,
            <<-6533, 107580, -1051>>,
            <<283, -1957, 101679>> >>, e)

\* identityConversion is declared in recoverymapmath.h
identityConversion(e) == e

Gamuts == {"BT709", "P3", "BT2100", "UNSPECIFIED"}

\* a variant that answers an unspecified hdr_gamut with the identity
getHdrConversionFnLenient(sdr_gamut, hdr_gamut) ==
  CASE sdr_gamut = "UNSPECIFIED" -> "nullptr"
    [] hdr_gamut = "UNSPECIFIED" -> "identityConversion"
    [] sdr_gamut = hdr_gamut -> "identityConversion"
    [] sdr_gamut = "BT709" /\ hdr_gamut = "P3" -> "p3ToBt709"
    [] sdr_gamut = "BT709" /\ hdr_gamut = "BT2100" -> "bt2100ToBt709"
    [] sdr_gamut = "P3" /\ hdr_gamut = "BT709" -> "bt709ToP3"
    [] sdr_gamut = "P3" /\ hdr_gamut = "BT2100" -> "bt2100ToP3"
    [] sdr_gamut = "BT2100" /\ hdr_gamut = "BT709" -> "bt709ToBt2100"
    [] OTHER -> "p3ToBt2100"

\* a variant whose BT2100/BT2100 case repeats the case above it
getHdrConversionFnRepeated(sdr_gamut, hdr_gamut) ==
  CASE sdr_gamut = "BT709" ->
         (CASE hdr_gamut = "BT709" -> "identityConversion"
            [] hdr_gamut = "P3" -> "p3ToBt709"
            [] hdr_gamut = "BT2100" -> "bt2100ToBt709"
            [] hdr_gamut = "UNSPECIFIED" -> "nullptr")
    [] sdr_gamut = "P3" ->
         (CASE hdr_gamut = "BT709" -> "bt709ToP3"
            [] hdr_gamut = "P3" -> "identityConversion"
            [] hdr_gamut = "BT2100" -> "bt2100ToP3"
            [] hdr_gamut = "UNSPECIFIED" -> "nullptr")
    [] sdr_gamut = "BT2100" ->
         (CASE hdr_gamut = "BT709" -> "bt709ToBt2100"
            [] hdr_gamut = "P3" -> "p3ToBt2100"
            [] hdr_gamut = "BT2100" -> "p3ToBt2100"
            [] hdr_gamut = "UNSPECIFIED" -> "nullptr")
    [] sdr_gamut = "UNSPECIFIED" -> "nullptr"

\* ColorTransformFn getHdrConversionFn(sdr_gamut, hdr_gamut): the name of
\* the function returned, "nullptr" for the null pointer
getHdrConversionFn(sdr_gamut, hdr_gamut) ==
  CASE sdr_gamut = "BT709" ->
         (CASE hdr_gamut = "BT709" -> "identityConversion"
            [] hdr_gamut = "P3" -> "p3ToBt709"
            [] hdr_gamut = "BT2100" -> "bt2100ToBt709"
            [] hdr_gamut = "UNSPECIFIED" -> "nullptr")
    [] sdr_gamut = "P3" ->
         (CASE hdr_gamut = "BT709" -> "bt709ToP3"
            [] hdr_gamut = "P3" -> "identityConversion"
            [] hdr_gamut = "BT2100" -> "bt2100ToP3"
            [] hdr_gamut = "UNSPECIFIED" -> "nullptr")
    [] sdr_gamut = "BT2100" ->
         (CASE hdr_gamut = "BT709" -> "bt709ToBt2100"
            [] hdr_gamut = "P3" -> "p3ToBt2100"
            [] hdr_gamut = "BT2100" -> "identityConversion"
            [] hdr_gamut = "UNSPECIFIED" -> "nullptr")
    [] sdr_gamut = "UNSPECIFIED" -> "nullptr"

\* a call through a non-null ColorTransformFn
CallTransform(conv, e) ==
  CASE conv = "identityConversion" -> identityConversion(e)
    [] conv = "bt709ToP3" -> bt709ToP3(e)
    [] conv = "bt709ToBt2100" -> bt709ToBt2100(e)
    [] conv = "p3ToBt709" -> p3ToBt709(e)
    [] conv = "p3ToBt2100" -> p3ToBt2100(e)
    [] conv = "bt2100ToBt709" -> bt2100ToBt709(e)
    [] conv = "bt2100ToP3" -> bt2100ToP3(e)

InitGetHdrConversionFn ==
  /\ fn = "getHdrConversionFn"
  /\ args \in { [sdr_gamut |-> s, hdr_gamut |-> h, e |-> e] :
                  s \in Gamuts, h \in Gamuts, e \in Colors }

\* the lookup
CallGetHdrConversionFn ==
  /\ fn = "getHdrConversionFn"
  /\ pc = "call"
  /\ ret' = [conv |-> getHdrConversionFn(args.sdr_gamut, args.hdr_gamut)]
  /\ pc' = "done"
  /\ UNCHANGED <<fn, args>>

\* the caller invokes the transform it was given, unless it is null
ApplyConversion ==
  /\ fn = "getHdrConversionFn"
  /\ pc = "done"
  /\ ret.conv # "nullptr"
  /\ ret' = [conv |-> ret.conv, out |-> CallTransform(ret.conv, args.e)]
  /\ pc' = "converted"
  /\ UNCHANGED <<fn, args>>

\* the conversion of the opposite direction, looked up with the gamuts
\* exchanged, applied to the converted Color
ApplyInverse ==
  /\ fn = "getHdrConversionFn"
  /\ pc = "converted"
  /\ getHdrConversionFn(args.hdr_gamut, args.sdr_gamut) # "nullptr"
  /\ LET inv == getHdrConversionFn(args.hdr_gamut, args.sdr_gamut)
     IN  ret' = [conv |-> ret.conv, out |-> ret.out, inverse |-> inv,
                 back |-> CallTransform(inv, ret.out)]
  /\ pc' = "inverted"
  /\ UNCHANGED <<fn, args>>

\* C5: getHdrConversionFn returns the null pointer, never a transform, if
\* and only if sdr_gamut or hdr_gamut is unspecified; each pair of specified
\* gamuts yields one of the seven transforms.
C5_NullIffUnspecified ==
  (fn = "getHdrConversionFn" /\ pc = "done")
  => /\ (ret.conv = "nullptr")
          <=> (args.sdr_gamut = "UNSPECIFIED" \/ args.hdr_gamut = "UNSPECIFIED")
     /\ ret.conv \in {"nullptr", "identityConversion", "bt709ToP3",
                      "bt709ToBt2100", "p3ToBt709", "p3ToBt2100",
                      "bt2100ToBt709", "bt2100ToP3"}

\* C5's case: a lookup with a specified sdr_gamut and an unspecified
\* hdr_gamut has returned the null pointer.
C5_Witness ==
  /\ fn = "getHdrConversionFn" /\ pc = "done"
  /\ args.sdr_gamut = "P3" /\ args.hdr_gamut = "UNSPECIFIED"
  /\ ret.conv = "nullptr"

\* C6: for equal specified gamuts the transform returned is
\* identityConversion and the converted Color equals the input in all three
\* channels; for two different gamuts the transform is not identityConversion.
C6_IdentityOnEqualGamuts ==
  (fn = "getHdrConversionFn" /\ pc = "converted")
  => /\ (args.sdr_gamut = args.hdr_gamut)
          => (/\ ret.conv = "identityConversion"
              /\ ret.out.r = args.e.r
              /\ ret.out.g = args.e.g
              /\ ret.out.b = args.e.b
              /\ ret.out.level = args.e.level)
     /\ (args.sdr_gamut # args.hdr_gamut)
          => ret.conv # "identityConversion"

\* C6's case: the transform of an equal pair has been applied to a Color
\* with three different channels.
C6_Witness ==
  /\ fn = "getHdrConversionFn" /\ pc = "converted"
  /\ args.sdr_gamut = "BT2100" /\ args.hdr_gamut = "BT2100"
  /\ args.e.r # args.e.g /\ args.e.g # args.e.b /\ args.e.r # args.e.b
  /\ ret.out = args.e

\* |back - e| <= 0.001 for one channel, `back` two levels above `e`
WithinTolerance(back, e) ==
  LET orig == WScale(100000, WScale(100000, e))
      tol == WScale(10000, WInt(1000 * ColorDen))
  IN  /\ WLeq(WSub(back, orig), tol)
      /\ WLeq(WSub(orig, back), tol)

\* C8: a conversion between two different gamuts followed by the conversion
\* of the opposite direction returns every channel within 0.001 of the
\* original, for all six ordered pairs.
C8_RoundTripWithinTolerance ==
  (fn = "getHdrConversionFn" /\ pc = "inverted"
     /\ args.sdr_gamut # args.hdr_gamut)
  => /\ ret.back.level = args.e.level + 2
     /\ WithinTolerance(ret.back.r, args.e.r)
     /\ WithinTolerance(ret.back.g, args.e.g)
     /\ WithinTolerance(ret.back.b, args.e.b)

\* C8's case: white has gone through bt2100ToP3 and back through p3ToBt2100
\* and has not come back exactly.
C8_Witness ==
  /\ fn = "getHdrConversionFn" /\ pc = "inverted"
  /\ ret.conv = "bt2100ToP3" /\ ret.inverse = "p3ToBt2100"
  /\ args.e.r = WInt(ColorDen) /\ args.e.g = WInt(ColorDen)
  /\ args.e.b = WInt(ColorDen)
  /\ ret.back.r # WScale(100000, WScale(100000, args.e.r))

(***************************************************************************)
(* colorToRgba1010102.  A uint32_t is its 32 bits, bit 0 the lowest.       *)
(***************************************************************************)
RECURSIVE Bit(_, _)
Bit(n, i) == IF i = 0 THEN n % 2 ELSE Bit(n \div 2, i - 1)

\* the word of a non-negative integer below 2^31
Word(n) == [i \in 0 .. 31 |-> Bit(n, i)]
WordAnd(a, b) == [i \in 0 .. 31 |-> a[i] * b[i]]
WordOr(a, b) == [i \in 0 .. 31 |-> IF a[i] + b[i] > 0 THEN 1 ELSE 0]
WordShl(a, k) == [i \in 0 .. 31 |-> IF i >= k THEN a[i - k] ELSE 0]
\* the word 0xHHHHLLLL from its two 16-bit halves
WordOfHalves(hi16, lo16) ==
  [i \in 0 .. 31 |-> IF i < 16 THEN Bit(lo16, i) ELSE Bit(hi16, i - 16)]

\* static_cast<uint32_t>(channel * 1023.0f) of a level-0 channel in [0, 1]
packChannel(w) == Word(RTrunc(RMul(Rat(WVal(w), ColorDen), RInt(1023))))

\* a variant that scales each channel by 1024
colorToRgba1010102By1024(e_gamma) ==
  LET ch(w) == Word(RTrunc(RMul(Rat(WVal(w), ColorDen), RInt(1024))))
  IN  WordOr(WordOr(WordOr(
        WordAnd(Word(1023), ch(e_gamma.r)),
        WordShl(WordAnd(Word(1023), ch(e_gamma.g)), 10)),
        WordShl(WordAnd(Word(1023), ch(e_gamma.b)), 20)),
        WordShl(Word(3), 30))

\* uint32_t colorToRgba1010102(Color e_gamma)
colorToRgba1010102(e_gamma) ==
  WordOr(WordOr(WordOr(
    WordAnd(Word(1023), packChannel(e_gamma.r)),
    WordShl(WordAnd(Word(1023), packChannel(e_gamma.g)), 10)),
    WordShl(WordAnd(Word(1023), packChannel(e_gamma.b)), 20)),
    WordShl(Word(3), 30))

InitColorToRgba1010102 ==
  /\ fn = "colorToRgba1010102"
  /\ args \in { [e_gamma |-> e] : e \in Colors }

CallColorToRgba1010102 ==
  /\ fn = "colorToRgba1010102"
  /\ pc = "call"
  /\ ret' = [word |-> colorToRgba1010102(args.e_gamma)]
  /\ pc' = "done"
  /\ UNCHANGED <<fn, args>>

\* the Color (r = 1.0, g = 0.0, b = 1.0)
IsPackExample ==
  /\ args.e_gamma.r = WInt(ColorDen)
  /\ args.e_gamma.g = WInt(0)
  /\ args.e_gamma.b = WInt(ColorDen)

\* C7 as stated: colorToRgba1010102 of (1.0, 0.0, 1.0) is 0xC00003FF.
C7_ExampleIsC00003FF ==
  (fn = "colorToRgba1010102" /\ pc = "done" /\ IsPackExample)
  => ret.word = WordOfHalves(49152, 1023)

\* C7 as amended: colorToRgba1010102 of (1.0, 0.0, 1.0) is 0xFFF003FF:
\* R = 1023 in bits 0-9, G = 0 in bits 10-19, B = 1023 in bits 20-29 and
\* alpha = 3 in bits 30-31.
C7_ExampleIsFFF003FF ==
  (fn = "colorToRgba1010102" /\ pc = "done" /\ IsPackExample)
  => /\ ret.word = WordOfHalves(65520, 1023)
     /\ \A i \in 0 .. 9 : ret.word[i] = 1
     /\ \A i \in 10 .. 19 : ret.word[i] = 0
     /\ \A i \in 20 .. 29 : ret.word[i] = 1
     /\ ret.word[30] = 1 /\ ret.word[31] = 1

\* C7's case: (1.0, 0.0, 1.0) has been packed.
C7_Witness ==
  /\ fn = "colorToRgba1010102" /\ pc = "done" /\ IsPackExample
  /\ ret.word[20] = 1

(***************************************************************************)
(* getYuv420Pixel                                                          *)
(***************************************************************************)
\* images of 1..MaxImageDim columns and rows
MaxImageDim == 4

\* the byte values a sample of the image is drawn from
ImageBytes == {0, 255}

\* a variant whose chroma row stride is the luma width
yuv420IndicesFullStride(image, x, y) ==
  LET pixel_count == image.width * image.height
      pixel_y_idx == x + y * image.width
      pixel_uv_idx == (x \div 2) + (y \div 2) * image.width
  IN  [y_idx |-> pixel_y_idx,
       u_idx |-> pixel_count + pixel_uv_idx,
       v_idx |-> (pixel_count * 5) \div 4 + pixel_uv_idx]

\* the indices of the three reads of getYuv420Pixel
yuv420Indices(image, x, y) ==
  LET pixel_count == image.width * image.height
      pixel_y_idx == x + y * image.width
      pixel_uv_idx == (x \div 2) + (y \div 2) * (image.width \div 2)
  IN  [y_idx |-> pixel_y_idx,
       u_idx |-> pixel_count + pixel_uv_idx,
       v_idx |-> (pixel_count * 5) \div 4 + pixel_uv_idx]

\* A read of image->data, of which the model holds the bytes at the indices
\* the call reads: any byte elsewhere.
ImageReadOutcomes(image, idx) ==
  IF idx \in DOMAIN image.data THEN {image.data[idx]} ELSE ImageBytes

\* Color getYuv420Pixel(image, x, y): the possible results, each with the
\* indices read
getYuv420Pixel(image, x, y) ==
  LET i == yuv420Indices(image, x, y)
  IN  { [y_idx |-> i.y_idx, u_idx |-> i.u_idx, v_idx |-> i.v_idx,
         color |-> [y |-> Rat(y_uint, 255),
                    u |-> Rat(u_uint - 128, 255),
                    v |-> Rat(v_uint - 128, 255)]] :
          y_uint \in ImageReadOutcomes(image, i.y_idx),
          u_uint \in ImageReadOutcomes(image, i.u_idx),
          v_uint \in ImageReadOutcomes(image, i.v_idx) }

InitGetYuv420Pixel ==
  /\ fn = "getYuv420Pixel"
  /\ \E w \in 1 .. MaxImageDim, h \in 1 .. MaxImageDim :
       \E x \in 0 .. (w - 1), y \in 0 .. (h - 1) :
         LET i == yuv420Indices([width |-> w, height |-> h], x, y)
         IN  \E d \in [{i.y_idx, i.u_idx, i.v_idx} -> ImageBytes] :
               args = [image |-> [width |-> w, height |-> h, data |-> d],
                       x |-> x, y |-> y]

CallGetYuv420Pixel ==
  /\ fn = "getYuv420Pixel"
  /\ pc = "call"
  /\ ret' \in getYuv420Pixel(args.image, args.x, args.y)
  /\ pc' = "done"
  /\ UNCHANGED <<fn, args>>

\* the three index ranges of C10, for the image of the call
PlanesSeparated ==
  LET n == args.image.width * args.image.height
  IN  /\ 0 <= ret.y_idx /\ ret.y_idx < n
      /\ n <= ret.u_idx /\ ret.u_idx < (n * 5) \div 4
      /\ (n * 5) \div 4 <= ret.v_idx /\ ret.v_idx < (n * 3) \div 2

\* C10 as stated: for every width >= 1 and height >= 1 and every pixel of
\* the image the Y read lies in [0, n), the U read in [n, n*5/4) and the V
\* read in [n*5/4, n*3/2), n = width * height.
C10_PlanesSeparatedAnySize ==
  (fn = "getYuv420Pixel" /\ pc = "done") => PlanesSeparated

\* C10 as amended: the same for every even width and even height.
C10_PlanesSeparatedEvenSize ==
  (fn = "getYuv420Pixel" /\ pc = "done"
     /\ args.image.width % 2 = 0 /\ args.image.height % 2 = 0)
  => PlanesSeparated

\* C10's case: the last pixel of an image of even width and height, more
\* than one chroma row high, has been read.
C10_Witness ==
  /\ fn = "getYuv420Pixel" /\ pc = "done"
  /\ args.image.width % 2 = 0 /\ args.image.height % 2 = 0
  /\ args.image.height >= 4
  /\ args.x = args.image.width - 1 /\ args.y = args.image.height - 1
  /\ ret.v_idx = (args.image.width * args.image.height * 3) \div 2 - 1

(***************************************************************************)
(* The call record.                                                        *)
(***************************************************************************)
Init ==
  /\ pc = "call"
  /\ ret = <<>>
  /\ \/ InitSampleMap
     \/ InitEncodeRecovery
     \/ InitGetHdrConversionFn
     \/ InitColorToRgba1010102
     \/ InitGetYuv420Pixel

Next ==
  \/ CallSampleMap
  \/ CallEncodeRecovery
  \/ CallGetHdrConversionFn
  \/ ApplyConversion
  \/ ApplyInverse
  \/ CallColorToRgba1010102
  \/ CallGetYuv420Pixel

Spec == Init /\ [][Next]_vars

=============================================================================
